---- MODULE Spec2Model ----
(***************************************************************************)
(* salt/pillar/http_yaml.py : ext_pillar(minion_id, pillar, url,           *)
(* with_grains).  One invocation is modelled statement by statement.       *)
(* Strings are sequences of one-character strings.                         *)
(***************************************************************************)
EXTENDS Integers, Sequences, FiniteSets, TLC

\* longest minion id that is enumerated
MaxIdLen == 2
\* largest number of diagnostic keys an http.query envelope carries
MaxEnvKeys == 2

----------------------------------------------------------------------------
(* Input alphabets and inputs                                              *)

IdChars == {"w", "/", " ", "<"}

Ids == UNION {[1..n -> IdChars] : n \in 0..MaxIdLen}

Http == <<"h", "t", "t", "p", ":", "/", "/", "x", "/">>

PctS == <<"%", "s">>

Templates ==
    { Http,
      Http \o PctS,
      Http \o PctS \o <<"/">> \o PctS,
      <<"%", "%", "s", "s">>,
      Http \o <<"<", "%", "s", ">">>,
      Http \o <<"<", "%", "s", ">", "/", "<", "b", ">">>,
      Http \o PctS \o <<"/", "<", "a", ">">>,
      Http \o <<"<", "a", ">", "/", "<", "a", ">">>,
      Http \o <<"<", "a", ">", "/", "<", "b", ">">>,
      Http \o <<"<", "b", ">", "/", "<", "a", ">">>,
      Http \o <<"<", "m", ">">>,
      Http \o <<"<", ">">>,
      Http \o <<"<", "a", ".", "b", ">", "/", "<", "a", "x", "b", ">">>,
      Http \o <<"<", "a", "x", "b", ">", "/", "<", "a", ".", "b", ">">>,
      Http \o <<"<", "a", "+", ">">>,
      Http \o <<"<", "a", "(", ">">>,
      Http \o <<"<", "a", ">", "<", "<", "a", ">", ">">>,
      Http \o <<"<", "a", ">", ">", "<">>,
      Http \o <<">", "<">> }

----------------------------------------------------------------------------
(* Grain values: what __salt__['grains.get'](name, None) can hand back.    *)
(* t = "raise" stands for a lookup that raises instead of returning.       *)

None == [t |-> "none", s |-> <<>>, n |-> 0]
StrVal(s) == [t |-> "str", s |-> s, n |-> 0]
IntVal(n) == [t |-> "int", s |-> <<>>, n |-> n]
BoolVal(b) == [t |-> "bool", s |-> <<>>, n |-> IF b THEN 1 ELSE 0]
Raises == [t |-> "raise", s |-> <<>>, n |-> 0]

StringGrains ==
    (<<"a">> :> StrVal(<<"v">>)) @@
    (<<"b">> :> StrVal(<<"<", "y", ">">>)) @@
    (<<"a", ".", "b">> :> StrVal(<<"d">>)) @@
    (<<"a", "x", "b">> :> StrVal(<<"e">>)) @@
    (<<"a", "+">> :> StrVal(<<"p">>)) @@
    (<<"a", "(">> :> StrVal(<<"q">>)) @@
    (<<"<", "a">> :> StrVal(<<"u", " ", "/">>)) @@
    (<<"w">> :> StrVal(<<"i">>)) @@
    (<<>> :> StrVal(<<"z">>))

NumberGrains ==
    (<<"a">> :> IntVal(1)) @@
    (<<"b">> :> IntVal(0)) @@
    (<<"w">> :> IntVal(10)) @@
    (<<"a", "+">> :> IntVal(205))

BoolGrains ==
    (<<"a">> :> BoolVal(TRUE)) @@
    (<<"b">> :> BoolVal(FALSE)) @@
    (<<"w">> :> BoolVal(TRUE))

EmptyGrains ==
    (<<"a">> :> StrVal(<<"v">>)) @@
    (<<"b">> :> StrVal(<<>>))

RaisingGrains ==
    (<<"a">> :> StrVal(<<"v">>)) @@
    (<<"b">> :> Raises)

GrainStores == {StringGrains, NumberGrains, BoolGrains, EmptyGrains, RaisingGrains}

\* __salt__['grains.get'](grain_name, None)
GrainsGet(store, name) ==
    IF name \in DOMAIN store THEN store[name] ELSE None

\* Truthy as the test `grain_value is not None` would have it
TruthyNotNone(v) == v.t # "none"

\* `not grain_value` is false
Truthy(v) ==
    CASE v.t = "none" -> FALSE
      [] v.t = "str" -> v.s # <<>>
      [] v.t = "int" -> v.n # 0
      [] v.t = "bool" -> v.n # 0
      [] OTHER -> FALSE

Digit(d) ==
    CASE d = 0 -> "0" [] d = 1 -> "1" [] d = 2 -> "2" [] d = 3 -> "3"
      [] d = 4 -> "4" [] d = 5 -> "5" [] d = 6 -> "6" [] d = 7 -> "7"
      [] d = 8 -> "8" [] OTHER -> "9"

RECURSIVE Decimal(_)
Decimal(n) ==
    IF n < 10 THEN <<Digit(n)>> ELSE Append(Decimal(n \div 10), Digit(n % 10))

\* str(grain_value)
Str(v) ==
    CASE v.t = "str" -> v.s
      [] v.t = "int" -> IF v.n < 0 THEN <<"-">> \o Decimal(-v.n) ELSE Decimal(v.n)
      [] v.t = "bool" -> IF v.n # 0 THEN <<"T", "r", "u", "e">>
                                    ELSE <<"F", "a", "l", "s", "e">>
      [] OTHER -> <<"N", "o", "n", "e">>

----------------------------------------------------------------------------
(* urllib quote(s): safe characters pass, every other one becomes %XX.     *)

AlwaysSafe ==
    {"a", "b", "d", "e", "h", "i", "l", "m", "n", "o", "p", "q", "r", "s", "t",
     "u", "v", "w", "x", "y", "z", "F", "N", "T",
     "0", "1", "2", "3", "4", "5", "6", "7", "8", "9", "_", ".", "-"}

\* the default of quote's parameter safe
DefaultSafe == {"/"}

HexOf(c) ==
    CASE c = " " -> <<"%", "2", "0">>
      [] c = "%" -> <<"%", "2", "5">>
      [] c = "(" -> <<"%", "2", "8">>
      [] c = "+" -> <<"%", "2", "B">>
      [] c = "/" -> <<"%", "2", "F">>
      [] c = ":" -> <<"%", "3", "A">>
      [] c = "<" -> <<"%", "3", "C">>
      [] c = ">" -> <<"%", "3", "E">>
      [] c = "\n" -> <<"%", "0", "A">>
      [] OTHER -> <<"%", "3", "F">>

RECURSIVE QuoteFrom(_, _, _)
QuoteFrom(s, safe, i) ==
    IF i > Len(s) THEN <<>>
    ELSE (IF s[i] \in AlwaysSafe \cup safe THEN <<s[i]>> ELSE HexOf(s[i]))
         \o QuoteFrom(s, safe, i + 1)

\* Quote as quote_plus would have it: a space becomes "+"
QuotePlus(s) ==
    [i \in 1..Len(QuoteFrom(s, DefaultSafe \cup {" "}, 1)) |->
        IF QuoteFrom(s, DefaultSafe \cup {" "}, 1)[i] = " " THEN "+"
        ELSE QuoteFrom(s, DefaultSafe \cup {" "}, 1)[i]]

\* _quote(x)
Quote(s) == QuoteFrom(s, DefaultSafe, 1)

----------------------------------------------------------------------------
(* str.replace(old, new): leftmost, non-overlapping, one pass              *)

StartsAt(s, old, i) ==
    /\ i + Len(old) - 1 <= Len(s)
    /\ \A k \in 1..Len(old) : s[i + k - 1] = old[k]

RECURSIVE ReplaceFrom(_, _, _, _)
ReplaceFrom(s, old, new, i) ==
    IF i > Len(s) THEN <<>>
    ELSE IF StartsAt(s, old, i)
         THEN new \o ReplaceFrom(s, old, new, i + Len(old))
         ELSE <<s[i]>> \o ReplaceFrom(s, old, new, i + 1)

StrReplace(s, old, new) == ReplaceFrom(s, old, new, 1)

----------------------------------------------------------------------------
(* re.finditer(r'<(?P<grain_name>.*?)>', url): the grain names of the      *)
(* non-overlapping lazy matches, left to right.  `.` excludes a newline.   *)

\* the index of the first ">" after p, 0 when there is none
FirstClose(s, p) ==
    LET qs == {q \in (p + 1)..Len(s) : s[q] = ">"}
    IN IF qs = {} THEN 0 ELSE CHOOSE q \in qs : \A r \in qs : q <= r

\* the end of the match that starts at p, 0 when none starts there
GrainMatchEnd(s, p) ==
    IF s[p] # "<" THEN 0
    ELSE LET q == FirstClose(s, p)
         IN IF q # 0 /\ \A r \in (p + 1)..(q - 1) : s[r] # "\n" THEN q ELSE 0

RECURSIVE FindIterFrom(_, _)
FindIterFrom(s, i) ==
    IF i > Len(s) THEN <<>>
    ELSE LET q == GrainMatchEnd(s, i)
         IN IF q # 0
            THEN <<SubSeq(s, i + 1, q - 1)>> \o FindIterFrom(s, q + 1)
            ELSE FindIterFrom(s, i + 1)

RECURSIVE Distinct(_, _)
Distinct(names, i) ==
    IF i > Len(names) THEN <<>>
    ELSE IF \E j \in 1..(i - 1) : names[j] = names[i]
         THEN Distinct(names, i + 1)
         ELSE <<names[i]>> \o Distinct(names, i + 1)

\* FindIter as a scan that yields each name once
FindIterDistinct(s) == Distinct(FindIterFrom(s, 1), 1)

FindIter(s) == FindIterFrom(s, 1)

----------------------------------------------------------------------------
(* re.sub('<{0}>'.format(grain_name), grain_value, url): the grain name is *)
(* compiled as a pattern.  Of the pattern syntax the model knows a literal *)
(* character, `.`, the quantifier `+` and an opening `(`; the templates    *)
(* use no other special character.  The replacement is what quote          *)
(* returned: it holds no backslash, so it is inserted as it is.            *)

Item(any, c) == [any |-> any, c |-> c, plus |-> FALSE]

CompileError == [ok |-> FALSE, items |-> <<>>]

\* sre_parse: "(" without ")" is "missing ), unterminated subpattern"; "+"
\* with nothing before it is "nothing to repeat", after a quantifier
\* "multiple repeat"
RECURSIVE CompileFrom(_, _, _)
CompileFrom(p, i, acc) ==
    IF i > Len(p) THEN [ok |-> TRUE, items |-> acc]
    ELSE CASE p[i] = "(" -> CompileError
           [] p[i] = "+" ->
                IF acc = <<>> \/ acc[Len(acc)].plus
                THEN CompileError
                ELSE CompileFrom(p, i + 1, [acc EXCEPT ![Len(acc)].plus = TRUE])
           [] p[i] = "." -> CompileFrom(p, i + 1, Append(acc, Item(TRUE, ".")))
           [] OTHER -> CompileFrom(p, i + 1, Append(acc, Item(FALSE, p[i])))

Compile(p) == CompileFrom(p, 1, <<>>)

AtomMatches(it, c) == IF it.any THEN c # "\n" ELSE c = it.c

\* how many characters from i on the atom matches in a row
RECURSIVE Run(_, _, _)
Run(it, s, i) ==
    IF i <= Len(s) /\ AtomMatches(it, s[i]) THEN 1 + Run(it, s, i + 1) ELSE 0

\* The backtracking matcher: the index after the match of items k.. that
\* starts at i, 0 when there is none.  A greedy `+` tries its longest run
\* first.
RECURSIVE Match(_, _, _, _), TryPlus(_, _, _, _, _)
Match(items, k, s, i) ==
    IF k > Len(items) THEN i
    ELSE IF items[k].plus
         THEN TryPlus(items, k, s, i, Run(items[k], s, i))
         ELSE IF i <= Len(s) /\ AtomMatches(items[k], s[i])
              THEN Match(items, k + 1, s, i + 1)
              ELSE 0

TryPlus(items, k, s, i, n) ==
    IF n < 1 THEN 0
    ELSE LET e == Match(items, k + 1, s, i + n)
         IN IF e # 0 THEN e ELSE TryPlus(items, k, s, i, n - 1)

RECURSIVE SubFrom(_, _, _, _)
SubFrom(items, repl, s, i) ==
    IF i > Len(s) THEN <<>>
    ELSE LET e == Match(items, 1, s, i)
         IN IF e # 0
            THEN repl \o SubFrom(items, repl, s, e)
            ELSE <<s[i]>> \o SubFrom(items, repl, s, i + 1)

\* re.sub(pattern, repl, s): err when the pattern does not compile
ReSub(pattern, repl, s) ==
    LET c == Compile(pattern)
    IN IF c.ok THEN [err |-> FALSE, s |-> SubFrom(c.items, repl, s, 1)]
       ELSE [err |-> TRUE, s |-> s]

\* '<{0}>'.format(grain_name)
GrainPattern(name) == <<"<">> \o name \o <<">">>

----------------------------------------------------------------------------
(* What __salt__['http.query'](url=url, decode=True, decode_type='yaml')   *)
(* can hand back.  A value is a mapping, a list or a string.               *)

MapVal(pairs) == [t |-> "map", v |-> pairs, s |-> ""]
ListVal(pairs) == [t |-> "list", v |-> pairs, s |-> ""]
TextVal(s) == [t |-> "str", v |-> <<>>, s |-> s]

EmptyMap == MapVal(<<>>)

Payloads ==
    { MapVal(<<<<"role", "web">>>>),
      MapVal(<<>>),
      ListVal(<<<<"0", "web">>>>),
      TextVal("web") }

DiagPairs ==
    << [k |-> "error", val |-> TextVal("timeout")],
       [k |-> "status", val |-> TextVal("500")],
       [k |-> "body", val |-> TextVal("")],
       [k |-> "headers", val |-> MapVal(<<<<"Server", "x">>>>)] >>

\* an envelope that is a mapping, its pairs in iteration order
MapEnv(items) == [t |-> "map", items |-> items, s |-> ""]
\* an envelope that is a plain string
StrEnv(s) == [t |-> "str", items |-> <<>>, s |-> s]
NoneEnv == [t |-> "none", items |-> <<>>, s |-> ""]
RaiseEnv == [t |-> "raise", items |-> <<>>, s |-> ""]

Diag(k) == SubSeq(DiagPairs, 1, k)

Envelopes ==
    {MapEnv(Diag(k)) : k \in 0..MaxEnvKeys}
    \cup {MapEnv(Append(Diag(k), [k |-> "dict", val |-> p])) :
            k \in 0..MaxEnvKeys, p \in Payloads}
    \cup {MapEnv(<<[k |-> "dict", val |-> p]>> \o Diag(1)) : p \in Payloads}
    \cup {StrEnv("dict"), StrEnv("err"), StrEnv(""), NoneEnv, RaiseEnv}

\* 'dict' in data, for the envelopes above (a string holds it as a substring)
HasDict(d) ==
    CASE d.t = "map" -> \E i \in DOMAIN d.items : d.items[i].k = "dict"
      [] d.t = "str" -> d.s = "dict"
      [] OTHER -> FALSE

\* DictOf as a lookup that hands back a mapping only
DictOfMapsOnly(d) ==
    LET val == d.items[CHOOSE i \in DOMAIN d.items : d.items[i].k = "dict"].val
    IN IF val.t = "map" THEN val ELSE [t |-> "map", v |-> <<>>, s |-> ""]

\* data['dict'] of a mapping
DictOf(d) ==
    d.items[CHOOSE i \in DOMAIN d.items : d.items[i].k = "dict"].val

----------------------------------------------------------------------------
(* The state of one invocation                                             *)

VARIABLES
    minion_id,      \* parameter minion_id
    template,       \* parameter url as it was passed
    with_grains,    \* parameter with_grains
    grains,         \* the grain store behind __salt__['grains.get']
    pc,             \* the statement the invocation is at
    url,            \* local url
    matches,        \* the names re.finditer has yet to yield
    grain_name,     \* local grain_name
    grain_value,    \* local grain_value
    data,           \* local data
    lookups,        \* the calls made to grains.get: name and what came back
    httpCalls,      \* the urls http.query was called with
    log,            \* the entries handed to _LOG
    result,         \* what ext_pillar returned
    raised          \* the exception that left ext_pillar

vars == <<minion_id, template, with_grains, grains, pc, url, matches, grain_name,
          grain_value, data, lookups, httpCalls, log, result, raised>>

inputs == <<minion_id, template, with_grains, grains>>

NotReturned == [t |-> "unset", v |-> <<>>, s |-> ""]

LogEntry(level, fmt, node, text, key, val) ==
    [level |-> level, fmt |-> fmt, node |-> node, text |-> text, key |-> key,
     val |-> val]

Init ==
    /\ minion_id \in Ids
    /\ template \in Templates
    /\ with_grains \in BOOLEAN
    /\ grains \in GrainStores
    /\ pc = "start"
    /\ url = template
    /\ matches = <<>>
    /\ grain_name = <<>>
    /\ grain_value = None
    /\ data = NoneEnv
    /\ lookups = <<>>
    /\ httpCalls = <<>>
    /\ log = <<>>
    /\ result = NotReturned
    /\ raised = ""

\* the for statement: the next match, or the statement after the loop
LoopPc(ms) == IF ms = <<>> THEN "query" ELSE "loop"

\* SubstMinionId without the test of with_grains
SubstMinionIdAlwaysGrains ==
    /\ pc = "start"
    /\ url' = StrReplace(url, PctS, Quote(minion_id))
    /\ matches' = FindIter(url')
    /\ pc' = LoopPc(matches')
    /\ UNCHANGED <<inputs, grain_name, grain_value, data, lookups, httpCalls, log,
                   result, raised>>

\* lines 79-86: the %s substitution, then the matches of the pattern in it
SubstMinionId ==
    /\ pc = "start"
    /\ url' = StrReplace(url, PctS, Quote(minion_id))
    /\ matches' = IF with_grains THEN FindIter(url') ELSE <<>>
    /\ pc' = IF with_grains THEN LoopPc(matches') ELSE "query"
    /\ UNCHANGED <<inputs, grain_name, grain_value, data, lookups, httpCalls, log,
                   result, raised>>

\* lines 86-88: the next match, and the lookup of its name
GrainGet ==
    /\ pc = "loop"
    /\ matches # <<>>
    /\ LET name == Head(matches)
           value == GrainsGet(grains, name)
       IN /\ grain_name' = name
          /\ matches' = Tail(matches)
          /\ lookups' = Append(lookups, [name |-> name, value |-> value])
          /\ IF value.t = "raise"
             THEN /\ pc' = "raised"
                  /\ raised' = "grains.get"
                  /\ UNCHANGED grain_value
             ELSE /\ pc' = "check"
                  /\ grain_value' = value
                  /\ UNCHANGED raised
    /\ UNCHANGED <<inputs, url, data, httpCalls, log, result>>

\* lines 90-92: no value, the error entry and the empty mapping
GrainMissing ==
    /\ pc = "check"
    /\ ~Truthy(grain_value)
    /\ log' = Append(log, LogEntry("error", "grain", minion_id, grain_name, "",
                                   EmptyMap))
    /\ result' = EmptyMap
    /\ pc' = "done"
    /\ UNCHANGED <<inputs, url, matches, grain_name, grain_value, data, lookups,
                   httpCalls, raised>>

\* lines 94-95: the quoted value replaces the matches of the name's pattern
GrainSub ==
    /\ pc = "check"
    /\ Truthy(grain_value)
    /\ LET r == ReSub(GrainPattern(grain_name), Quote(Str(grain_value)), url)
       IN IF r.err
          THEN /\ pc' = "raised"
               /\ raised' = "re.error"
               /\ UNCHANGED url
          ELSE /\ url' = r.s
               /\ pc' = LoopPc(matches)
               /\ UNCHANGED raised
    /\ UNCHANGED <<inputs, matches, grain_name, grain_value, data, lookups,
                   httpCalls, log, result>>

\* lines 97-98: the debug entry and the request
HttpQuery ==
    /\ pc = "query"
    /\ log' = Append(log, LogEntry("debug", "url", <<>>, url, "", EmptyMap))
    /\ httpCalls' = Append(httpCalls, url)
    /\ \E env \in Envelopes :
          IF env.t = "raise"
          THEN /\ pc' = "raised"
               /\ raised' = "http.query"
               /\ UNCHANGED data
          ELSE /\ pc' = "interp"
               /\ data' = env
               /\ UNCHANGED raised
    /\ UNCHANGED <<inputs, url, matches, grain_name, grain_value, lookups, result>>

\* line 100 with data = None: the operator `in` raises TypeError
InTestRaises ==
    /\ pc = "interp"
    /\ data.t = "none"
    /\ pc' = "raised"
    /\ raised' = "TypeError"
    /\ UNCHANGED <<inputs, url, matches, grain_name, grain_value, data, lookups,
                   httpCalls, log, result>>

\* lines 100-101: data['dict'] is returned; indexing a string raises
ReturnDict ==
    /\ pc = "interp"
    /\ data.t # "none"
    /\ HasDict(data)
    /\ IF data.t = "map"
       THEN /\ result' = DictOf(data)
            /\ pc' = "done"
            /\ UNCHANGED raised
       ELSE /\ pc' = "raised"
            /\ raised' = "TypeError"
            /\ UNCHANGED result
    /\ UNCHANGED <<inputs, url, matches, grain_name, grain_value, data, lookups,
                   httpCalls, log>>

\* KeyEntries as a loop that stops after its first pair
KeyEntriesFirstOnly(d) ==
    [i \in DOMAIN d.items \cap {1} |->
        LogEntry("error", "pair", <<>>, <<>>, d.items[i].k, d.items[i].val)]

\* the entries of the loop of lines 105-106 over a mapping
KeyEntries(d) ==
    [i \in DOMAIN d.items |->
        LogEntry("error", "pair", <<>>, <<>>, d.items[i].k, d.items[i].val)]

\* lines 103-108: the entry for node and url, one entry per key, the empty
\* mapping; data[key] of a string that is not empty raises
ReturnError ==
    /\ pc = "interp"
    /\ data.t # "none"
    /\ ~HasDict(data)
    /\ LET head == LogEntry("error", "http", minion_id, url, "", EmptyMap)
       IN IF data.t = "str" /\ data.s # ""
          THEN /\ log' = Append(log, head)
               /\ pc' = "raised"
               /\ raised' = "TypeError"
               /\ UNCHANGED result
          ELSE /\ log' = Append(log, head) \o KeyEntries(data)
               /\ result' = EmptyMap
               /\ pc' = "done"
               /\ UNCHANGED raised
    /\ UNCHANGED <<inputs, url, matches, grain_name, grain_value, data, lookups,
                   httpCalls>>

Next ==
    \/ SubstMinionId
    \/ GrainGet
    \/ GrainMissing
    \/ GrainSub
    \/ HttpQuery
    \/ InTestRaises
    \/ ReturnDict
    \/ ReturnError

Spec == Init /\ [][Next]_vars

----------------------------------------------------------------------------
(* What the properties are stated with                                     *)

ErrorLog == SelectSeq(log, LAMBDA e : e.level = "error")

LookupNames == [i \in DOMAIN lookups |-> lookups[i].name]

\* the values that count as no value: None, "", 0, False
FalsyValues == {None, StrVal(<<>>), IntVal(0), BoolVal(FALSE)}

AllTruthy == \A i \in DOMAIN lookups : lookups[i].value \notin FalsyValues \cup {Raises}

\* percent-encoding of the characters a minion id is made of; slash is what
\* "/" is written as
RECURSIVE EncodeId(_, _)
EncodeId(id, slash) ==
    IF id = <<>> THEN <<>>
    ELSE (CASE Head(id) = " " -> <<"%", "2", "0">>
            [] Head(id) = "<" -> <<"%", "3", "C">>
            [] Head(id) = "/" -> slash
            [] OTHER -> <<Head(id)>>)
         \o EncodeId(Tail(id), slash)

\* every reserved character escaped
StrictEncode(id) == EncodeId(id, <<"%", "2", "F">>)
\* every reserved character but "/" escaped
EncodeKeepSlash(id) == EncodeId(id, <<"/">>)

\* where "%s" stands in t; two occurrences never overlap
PctAt(t) == {i \in 1..(Len(t) - 1) : t[i] = "%" /\ t[i + 1] = "s"}

RECURSIVE Pieces(_, _, _)
Pieces(t, enc, i) ==
    IF i > Len(t) THEN <<>>
    ELSE (IF i \in PctAt(t) THEN enc
          ELSE IF (i - 1) \in PctAt(t) THEN <<>> ELSE <<t[i]>>)
         \o Pieces(t, enc, i + 1)

\* t with each "%s" replaced by enc
WithNode(t, enc) == Pieces(t, enc, 1)

\* the ">" that close a span "<", shortest run, ">": those whose nearest
\* bracket to the left is a "<"
CloseEnds(s) ==
    {q \in 1..Len(s) :
        /\ s[q] = ">"
        /\ \E p \in 1..(q - 1) : s[p] = "<" /\ \A r \in (p + 1)..(q - 1) : s[r] # ">"}

\* the "<" the span closed at q opens with: the leftmost with no ">" up to q
SpanStart(s, q) ==
    CHOOSE p \in 1..(q - 1) :
        /\ s[p] = "<" /\ \A r \in (p + 1)..(q - 1) : s[r] # ">"
        /\ \A p2 \in 1..(p - 1) : ~(s[p2] = "<" /\ \A r \in (p2 + 1)..(q - 1) : s[r] # ">")

RECURSIVE SpansOf(_, _)
SpansOf(s, ends) ==
    IF ends = {} THEN <<>>
    ELSE LET q == CHOOSE e \in ends : \A f \in ends : e <= f
         IN <<SubSeq(s, SpanStart(s, q) + 1, q - 1)>> \o SpansOf(s, ends \ {q})

\* the names of the spans of s, left to right
SpanNames(s) == SpansOf(s, CloseEnds(s))

\* the names of the placeholders of the invocation
Placeholders == SpanNames(WithNode(template, EncodeKeepSlash(minion_id)))

\* u after the first k lookups, each replacing the literal "<name>"
RECURSIVE LiteralFold(_, _)
LiteralFold(u, k) ==
    IF k = 0 THEN u
    ELSE StrReplace(LiteralFold(u, k - 1), <<"<">> \o lookups[k].name \o <<">">>,
                    Quote(Str(lookups[k].value)))

HasDictKey == data.t = "map" /\ \E i \in DOMAIN data.items : data.items[i].k = "dict"

NoDictKey == data.t = "map" /\ \A i \in DOMAIN data.items : data.items[i].k # "dict"

GrainError(name) == LogEntry("error", "grain", minion_id, name, "", EmptyMap)

----------------------------------------------------------------------------
(* The properties                                                          *)

\* C1: no error leaves ext_pillar: an invocation never ends in an exception,
\* what it returns is a mapping, and without a request answered by an
\* envelope with the key dict the mapping is empty.
C1_NoErrorEscapes ==
    /\ pc # "raised"
    /\ pc = "done" => result.t = "map"
    /\ (pc = "done" /\ ~HasDictKey) => result = EmptyMap

\* C2: a lookup that returns None, "", 0 or False is the last lookup of the
\* invocation, no request is made, and the invocation returns the empty
\* mapping after exactly one error entry, which names the node and the grain.
C2_MissingGrainStops ==
    \A i \in DOMAIN lookups :
        lookups[i].value \in FalsyValues =>
            /\ i = Len(lookups)
            /\ httpCalls = <<>>
            /\ pc \in {"check", "done"}
            /\ pc = "check" => ErrorLog = <<>>
            /\ pc = "done" =>
                  /\ result = EmptyMap
                  /\ ErrorLog = <<GrainError(lookups[i].name)>>

C2_Witness ==
    /\ pc = "done"
    /\ with_grains
    /\ Len(lookups) = 1
    /\ lookups[1].value = IntVal(0)
    /\ matches # <<>>
    /\ httpCalls = <<>>
    /\ Len(ErrorLog) = 1

\* C3: with every lookup truthy, the url is the %s-substituted template
\* with, for each name looked up in turn, every literal "<name>" replaced by
\* the quoted str of its value, and nothing else replaced; no substitution
\* fails.
C3_LiteralSubstitution ==
    (with_grains /\ AllTruthy /\ pc \in {"loop", "query", "interp", "done", "raised"})
        => /\ raised # "re.error"
           /\ url = LiteralFold(WithNode(template, EncodeKeepSlash(minion_id)),
                                Len(lookups))

\* C4 as stated: every "%s" is replaced, whatever with_grains is, in one
\* pass, by the node id with every reserved character escaped.
C4_EveryReservedEscaped ==
    (pc # "start" /\ lookups = <<>>)
        => url = WithNode(template, StrictEncode(minion_id))

\* C4: every "%s" is replaced, whatever with_grains is, in one pass, by the
\* node id with every reserved character but "/" escaped; "/" stays.
C4_ReservedButSlashEscaped ==
    /\ (pc # "start" /\ lookups = <<>>)
          => url = WithNode(template, EncodeKeepSlash(minion_id))
    /\ (~with_grains /\ httpCalls # <<>> /\ template = Http \o PctS)
          => httpCalls[1] = Http \o EncodeKeepSlash(minion_id)

C4_Witness ==
    /\ ~with_grains
    /\ template = Http \o PctS \o <<"/">> \o PctS
    /\ minion_id = <<" ", "/">>
    /\ httpCalls = <<Http \o <<"%", "2", "0", "/", "/", "%", "2", "0", "/">>>>

\* C5 as stated: no name is looked up twice, and "http://x/<a>/<a>" with
\* a = "v" is requested as "http://x/v/v" after one lookup.
C5_OnceLookupPerName ==
    /\ \A i, j \in DOMAIN lookups : lookups[i].name = lookups[j].name => i = j
    /\ (with_grains /\ httpCalls # <<>>
        /\ template = Http \o <<"<", "a", ">", "/", "<", "a", ">">>
        /\ GrainsGet(grains, <<"a">>) = StrVal(<<"v">>))
          => /\ httpCalls[1] = Http \o <<"v", "/", "v">>
             /\ Len(lookups) = 1

\* C5: the lookup is made once per occurrence of a placeholder, in the order
\* of the occurrences, so a name that occurs twice is looked up twice;
\* "http://x/<a>/<a>" with a = "v" is requested as "http://x/v/v" after two
\* lookups.
C5_OnceLookupPerOccurrence ==
    /\ (with_grains /\ pc # "start") => LookupNames \o matches = Placeholders
    /\ (with_grains /\ httpCalls # <<>>) => LookupNames = Placeholders
    /\ (with_grains /\ httpCalls # <<>>
        /\ template = Http \o <<"<", "a", ">", "/", "<", "a", ">">>
        /\ GrainsGet(grains, <<"a">>) = StrVal(<<"v">>))
          => /\ httpCalls[1] = Http \o <<"v", "/", "v">>
             /\ Len(lookups) = 2

C5_Witness ==
    /\ with_grains
    /\ template = Http \o <<"<", "a", ">", "/", "<", "a", ">">>
    /\ LookupNames = <<<<"a">>, <<"a">>>>
    /\ httpCalls = <<Http \o <<"v", "/", "v">>>>

\* C6: an envelope with the key dict makes ext_pillar return the value
\* under that key as it is, with no error entry.
C6_DictReturnedAsIs ==
    (HasDictKey /\ pc # "interp")
        => /\ pc = "done"
           /\ \E i \in DOMAIN data.items :
                 data.items[i].k = "dict" /\ result = data.items[i].val
           /\ ErrorLog = <<>>

C6_Witness ==
    /\ pc = "done"
    /\ HasDictKey
    /\ Len(data.items) > 1
    /\ result = ListVal(<<<<"0", "web">>>>)

\* C7: an envelope without the key dict makes ext_pillar return the empty
\* mapping after 1 + k error entries, k the number of its keys: one for the
\* node and the url requested, then one per pair of the envelope.
C7_ErrorEntries ==
    (NoDictKey /\ pc # "interp")
        => /\ pc = "done"
           /\ result = EmptyMap
           /\ Len(ErrorLog) = 1 + Len(data.items)
           /\ ErrorLog[1] = LogEntry("error", "http", minion_id, httpCalls[1], "",
                                     EmptyMap)
           /\ \A i \in DOMAIN data.items :
                 /\ ErrorLog[i + 1].fmt = "pair"
                 /\ ErrorLog[i + 1].key = data.items[i].k
                 /\ ErrorLog[i + 1].val = data.items[i].val

C7_Witness ==
    /\ pc = "done"
    /\ NoDictKey
    /\ Len(data.items) = 2
    /\ Len(ErrorLog) = 3
    /\ result = EmptyMap

NoPlaceholder(t) == PctAt(t) = {} /\ CloseEnds(t) = {}

\* C8 as stated: with with_grains false no lookup is made and the spans of
\* the template are the spans of the url requested; a template with neither
\* "%s" nor a span is requested as it is, with no lookup.
C8_SpansUnchanged ==
    /\ ~with_grains =>
          /\ lookups = <<>>
          /\ httpCalls # <<>> => SpanNames(httpCalls[1]) = SpanNames(template)
    /\ NoPlaceholder(template) =>
          /\ lookups = <<>>
          /\ httpCalls # <<>> => httpCalls[1] = template

\* C8: with with_grains false no lookup is made and each span of the
\* template is requested with nothing but its "%s" replaced by the encoded
\* node id, so a span without "%s" is requested as it is; a template with
\* neither "%s" nor a span is requested as it is, with no lookup.
C8_SpansKeptButNode ==
    /\ ~with_grains =>
          /\ lookups = <<>>
          /\ httpCalls # <<>> =>
                SpanNames(httpCalls[1]) =
                    [i \in DOMAIN SpanNames(template) |->
                        WithNode(SpanNames(template)[i], EncodeKeepSlash(minion_id))]
    /\ NoPlaceholder(template) =>
          /\ lookups = <<>>
          /\ httpCalls # <<>> => httpCalls[1] = template

C8_Witness ==
    /\ ~with_grains
    /\ template = Http \o <<"<", "%", "s", ">", "/", "<", "b", ">">>
    /\ minion_id = <<"w">>
    /\ httpCalls = <<Http \o <<"<", "w", ">", "/", "<", "b", ">">>>>
    /\ lookups = <<>>

\* every placeholder looked up, every lookup truthy
Resolved == ~with_grains \/ (LookupNames = Placeholders /\ AllTruthy)

\* C9: at most one request; an invocation that has ended has made one
\* exactly when the url was resolved; once the request is made no lookup is
\* left to make.
C9_QueryIffResolved ==
    /\ Len(httpCalls) <= 1
    /\ pc \in {"done", "raised"} => (Len(httpCalls) = 1 <=> Resolved)
    /\ httpCalls # <<>> => pc \in {"interp", "done", "raised"}

\* C10: with with_grains true the url requested holds no span "<", shortest
\* run, ">".
C10_NoSpanLeft ==
    (with_grains /\ httpCalls # <<>>) => CloseEnds(httpCalls[1]) = {}

====
